---- MODULE Spec2Model ----
(***************************************************************************)
(* Model of Quantun.ipynb: a notebook that defines Q# operations          *)
(* (RandomBit, Random, RandomNBits), runs them on the local simulator,    *)
(* tallies and plots the outcomes, re-initialises the Q# session and      *)
(* compiles a program for submission.                                     *)
(*                                                                         *)
(* The specifications share the Q# operation steps:                        *)
(*   Spec    the code cells executed once, top to bottom;                  *)
(*   QsSpec  one Q# entry expression (RandomBit(), Random() or             *)
(*           RandomNBits(N)) executed statement by statement;              *)
(*   QsFair  QsSpec with weak fairness of the interpreter's next step.     *)
(***************************************************************************)
EXTENDS Integers, Sequences, FiniteSets, TLC

\* ---- bounds -------------------------------------------------------------
\* largest shot count tried for qsharp.run (the notebook passes 1000)
MaxShots == 3
\* range -MaxNeg .. MaxN of the argument N tried for RandomNBits (the
\* notebook passes 4)
MaxNeg == 1
MaxN == 4

\* ---- values -------------------------------------------------------------
\* the two values of the Q# type Result
Labels == {"Zero", "One"}

\* order of Result values used by list.sort(): Zero sorts before One
Rank(l) == IF l = "Zero" THEN 0 ELSE 1

\* ---- single-qubit simulator ---------------------------------------------
\* Qubit(): a freshly allocated qubit is in the state |0>
Qubit == "Zero"

\* H: the Hadamard transformation on the states a single qubit takes here
H(q) ==
  CASE q = "Zero"  -> "Plus"
    [] q = "One"   -> "Minus"
    [] q = "Plus"  -> "Zero"
    [] q = "Minus" -> "One"

\* M: the outcomes a measurement in the computational basis can produce;
\* the qubit collapses to the outcome
M(q) == IF q \in Labels THEN {q} ELSE Labels

\* a variant of Reset that leaves the qubit as it is
ResetNoop(q) == q

\* Reset: returns the qubit to |0>
Reset(q) == "Zero"

VARIABLES
  \* notebook (Python) state
  cell,      \* the statement of the notebook that runs next
  defined,   \* operations defined in the current Q# session
  err,       \* the exception that stopped the run, or "none"
  shots,     \* the shots argument of qsharp.run
  results,   \* Python variable results (rebound by the list comprehension)
  counts,    \* Python variable counts (Counter, then its values())
  values,    \* Python variable values (the Counter's keys())
  xlabels,   \* Python variable xlabels
  bars,      \* the bars drawn by plt.bar: <<x, height>>
  ticks,     \* the tick labels set by plt.xticks: <<x, label>>
  r,         \* Python variable r
  i,         \* Python variable i
  \* Q# interpreter state
  op,        \* the operation (RandomBit or Random) being executed
  qpc,       \* the statement of that operation that runs next
  qubit,     \* state of the operation's qubit ("free" when not allocated)
  result,    \* the operation's immutable binding result
  ret,       \* the value the last operation call returned
  events,    \* output events (DumpMachine, Message) of the current call
  entry,     \* entry expression of QsSpec: [name, arg]
  nbPc,      \* position in the entry expression / RandomNBits
  nbI,       \* loop variable i of RandomNBits
  nbR,       \* immutable binding r of the loop body of RandomNBits
  nbResults, \* mutable results of RandomNBits
  nbRet,     \* value returned by RandomNBits
  calls      \* number of calls of Random() made by RandomNBits

pyVars == <<cell, defined, err, shots, results, counts, values, xlabels,
            bars, ticks, r, i>>
opVars == <<op, qpc, qubit, result, ret, events>>
nbVars == <<entry, nbPc, nbI, nbR, nbResults, nbRet, calls>>
vars == <<pyVars, opVars, nbVars>>

\* ---- RandomBit / Random, statement by statement -------------------------
\* state of the interpreter when no operation is being executed
OpIdle ==
  /\ op = "none" /\ qpc = "idle" /\ qubit = "free"
  /\ result = "none" /\ ret = "none" /\ events = << >>

\* the call of operation name: control enters its body
Call(name) ==
  /\ op' = name
  /\ qpc' = "use"
  /\ result' = "none"
  /\ events' = << >>
  /\ UNCHANGED <<qubit, ret>>

\* the caller takes the returned value; the interpreter is idle again
Resume ==
  /\ qpc' = "idle"
  /\ UNCHANGED <<op, qubit, result, ret, events>>

\* use qubit = Qubit();
OpUse ==
  /\ qpc = "use"
  /\ qubit' = Qubit
  /\ qpc' = "H"
  /\ UNCHANGED <<op, result, ret, events, pyVars, nbVars>>

\* H(qubit);
OpH ==
  /\ qpc = "H"
  /\ qubit' = H(qubit)
  /\ qpc' = IF op = "RandomBit" THEN "DumpMachine" ELSE "M"
  /\ UNCHANGED <<op, result, ret, events, pyVars, nbVars>>

\* DumpMachine();   (RandomBit only)
OpDumpMachine ==
  /\ qpc = "DumpMachine"
  /\ events' = Append(events, <<"DumpMachine", qubit>>)
  /\ qpc' = "M"
  /\ UNCHANGED <<op, qubit, result, ret, pyVars, nbVars>>

\* let result = M(qubit);
OpM ==
  /\ qpc = "M"
  /\ \E outcome \in M(qubit) :
       /\ result' = outcome
       /\ qubit' = outcome
  /\ qpc' = IF op = "RandomBit" THEN "Message" ELSE "Reset"
  /\ UNCHANGED <<op, ret, events, pyVars, nbVars>>

\* Message($"The result of the measurement is {result}.");  (RandomBit only)
OpMessage ==
  /\ qpc = "Message"
  /\ events' = Append(events, <<"Message", result>>)
  /\ qpc' = "Reset"
  /\ UNCHANGED <<op, qubit, result, ret, pyVars, nbVars>>

\* Reset(qubit);
OpReset ==
  /\ qpc = "Reset"
  /\ qubit' = Reset(qubit)
  /\ qpc' = "return"
  /\ UNCHANGED <<op, result, ret, events, pyVars, nbVars>>

\* return result   and the end of the scope, which releases the qubit
OpReturn ==
  /\ qpc = "return"
  /\ ret' = result
  /\ qubit' = "free"
  /\ qpc' = "done"
  /\ UNCHANGED <<op, result, events, pyVars, nbVars>>

\* ---- RandomNBits and the entry expression (QsSpec) ----------------------
\* the entry expressions tried: the two single-bit operations and
\* RandomNBits(n) for the small n
Entries ==
  {[name |-> "RandomBit", arg |-> 0], [name |-> "Random", arg |-> 0]}
    \cup {[name |-> "RandomNBits", arg |-> n] : n \in (0 - MaxNeg) .. MaxN}

\* the argument N of RandomNBits
N == entry.arg

\* a variant of the range test that runs the body once more
InRangeInclusive(k, n) == k <= n

\* the range 0 .. N - 1 of the for loop: k is in it iff 0 <= k <= n - 1
\* (k starts at 0 and only grows, so the upper end decides)
InRange(k, n) == k <= n - 1

\* no entry expression is being executed (the state outside QsSpec)
NbIdle ==
  /\ entry = [name |-> "none", arg |-> 0]
  /\ nbPc = "none" /\ nbI = 0 /\ nbR = "none"
  /\ nbResults = << >> /\ nbRet = << >> /\ calls = 0

\* the entry expression is evaluated: RandomNBits(N) enters its body,
\* RandomBit() and Random() are called directly
EntryCall ==
  /\ nbPc = "entry"
  /\ qpc = "idle"
  /\ IF entry.name = "RandomNBits"
       THEN /\ nbPc' = "mutable"
            /\ UNCHANGED opVars
       ELSE /\ nbPc' = "op"
            /\ Call(entry.name)
  /\ UNCHANGED <<entry, nbI, nbR, nbResults, nbRet, calls, pyVars>>

\* a directly called RandomBit() or Random() has returned
EntryDone ==
  /\ nbPc = "op"
  /\ qpc = "done"
  /\ nbPc' = "done"
  /\ Resume
  /\ UNCHANGED <<entry, nbI, nbR, nbResults, nbRet, calls, pyVars>>

\* mutable results = [];   and the loop variable takes the range's start
NBMutable ==
  /\ nbPc = "mutable"
  /\ nbResults' = << >>
  /\ nbI' = 0
  /\ nbPc' = "for"
  /\ UNCHANGED <<entry, nbR, nbRet, calls, opVars, pyVars>>

\* for i in 0 .. N - 1 {
NBFor ==
  /\ nbPc = "for"
  /\ nbPc' = IF InRange(nbI, N) THEN "call" ELSE "return"
  /\ UNCHANGED <<entry, nbI, nbR, nbResults, nbRet, calls, opVars, pyVars>>

\* let r = Random();   the call
NBCall ==
  /\ nbPc = "call"
  /\ qpc = "idle"
  /\ Call("Random")
  /\ calls' = calls + 1
  /\ nbPc' = "bind"
  /\ UNCHANGED <<entry, nbI, nbR, nbResults, nbRet, pyVars>>

\* let r = Random();   the binding of the returned value
NBBind ==
  /\ nbPc = "bind"
  /\ qpc = "done"
  /\ nbR' = ret
  /\ Resume
  /\ nbPc' = "append"
  /\ UNCHANGED <<entry, nbI, nbResults, nbRet, calls, pyVars>>

\* set results += [r];   and the loop variable moves to the next element
NBAppend ==
  /\ nbPc = "append"
  /\ nbResults' = nbResults \o <<nbR>>
  /\ nbI' = nbI + 1
  /\ nbPc' = "for"
  /\ UNCHANGED <<entry, nbR, nbRet, calls, opVars, pyVars>>

\* return results
NBReturn ==
  /\ nbPc = "return"
  /\ nbRet' = nbResults
  /\ nbPc' = "done"
  /\ UNCHANGED <<entry, nbI, nbR, nbResults, calls, opVars, pyVars>>

\* the notebook's Python state, unused while one entry expression runs
PyIdle ==
  /\ cell = "none" /\ defined = {} /\ err = "none" /\ shots = 0
  /\ results = << >> /\ counts = << >> /\ values = << >>
  /\ xlabels = << >> /\ bars = << >> /\ ticks = << >>
  /\ r = "none" /\ i = 0

QsInit ==
  /\ PyIdle
  /\ OpIdle
  /\ entry \in Entries
  /\ nbPc = "entry" /\ nbI = 0 /\ nbR = "none"
  /\ nbResults = << >> /\ nbRet = << >> /\ calls = 0

QsNext ==
  \/ EntryCall
  \/ EntryDone
  \/ NBMutable
  \/ NBFor
  \/ NBCall
  \/ NBBind
  \/ NBAppend
  \/ NBReturn
  \/ OpUse
  \/ OpH
  \/ OpDumpMachine
  \/ OpM
  \/ OpMessage
  \/ OpReset
  \/ OpReturn

QsSpec == QsInit /\ [][QsNext]_vars

\* the interpreter is single-threaded and always executes its next statement
QsFair == QsSpec /\ WF_vars(QsNext)

\* ---- Python helpers of the plotting cell --------------------------------
\* a variant of the list comprehension that keeps the whole entry
ExtractEntry(entries) == entries

\* [entry["result"] for entry in results]
Extract(entries) == [k \in 1 .. Len(entries) |-> entries[k]["result"]]

\* x placed into the sorted list s, after the elements that do not sort
\* after it (list.sort() is stable)
RECURSIVE Insert(_, _)
Insert(x, s) ==
  IF s = << >> THEN <<x>>
  ELSE IF Rank(x) < Rank(Head(s)) THEN <<x>> \o s
  ELSE <<Head(s)>> \o Insert(x, Tail(s))

\* a variant of sort that leaves the list as it is
SortNoop(s) == s

\* results.sort(): ascending by the order of Result values
RECURSIVE Sort(_)
Sort(s) ==
  IF s = << >> THEN << >>
  ELSE Insert(s[Len(s)], Sort(SubSeq(s, 1, Len(s) - 1)))

\* a variant of the Counter update that counts only a run of equal
\* neighbours: a label met again after another label starts from 1
CounterAddRun(c, x) ==
  IF c # << >> /\ c[Len(c)][1] = x
    THEN [c EXCEPT ![Len(c)] = <<x, c[Len(c)][2] + 1>>]
    ELSE [k \in 1 .. Len(c) |-> IF c[k][1] = x THEN <<x, 1>> ELSE c[k]]
           \o (IF \E k \in 1 .. Len(c) : c[k][1] = x THEN << >> ELSE <<<<x, 1>>>>)

\* Counter: one more occurrence of x; a dict keeps its keys in the order of
\* their first insertion, so the Counter is a list of <<key, count>>
CounterAdd(c, x) ==
  IF \E k \in 1 .. Len(c) : c[k][1] = x
    THEN [k \in 1 .. Len(c) |-> IF c[k][1] = x THEN <<x, c[k][2] + 1>> ELSE c[k]]
    ELSE Append(c, <<x, 1>>)

\* Counter(results): the elements are counted from left to right
RECURSIVE Counter(_)
Counter(s) ==
  IF s = << >> THEN << >>
  ELSE CounterAdd(Counter(SubSeq(s, 1, Len(s) - 1)), s[Len(s)])

\* counts.keys()
Keys(c) == [k \in 1 .. Len(c) |-> c[k][1]]

\* counts.values()
Values(c) == [k \in 1 .. Len(c) |-> c[k][2]]

\* np.arange(n): 0, 1, ..., n - 1
Arange(n) == [k \in 1 .. n |-> k - 1]

\* a variant of the shot loop that runs one shot too many
MoreShotsInclusive(done, n) == done <= n

\* qsharp.run(..., shots=n): the entry expression is run once per shot
MoreShots(done, n) == done < n

\* a variant of qsharp.init that keeps the session's definitions
KeepSession(defs) == defs

\* qsharp.init(...): the compiler is reset; the new session defines nothing
InitSession(defs) == {}

\* ---- the code cells, top to bottom (Spec) -------------------------------
\* an operation call names an operation the session does not define
NameError ==
  /\ err' = "NameResolutionError"
  /\ cell' = "failed"

\* import qsharp
CellImport ==
  /\ cell = "import"
  /\ cell' = "define_RandomBit"
  /\ UNCHANGED <<defined, err, shots, results, counts, values, xlabels,
                 bars, ticks, r, i, opVars, nbVars>>

\* %%qsharp ... operation RandomBit() : Result { ... }
CellDefineRandomBit ==
  /\ cell = "define_RandomBit"
  /\ defined' = defined \cup {"RandomBit"}
  /\ cell' = "call_RandomBit"
  /\ UNCHANGED <<err, shots, results, counts, values, xlabels,
                 bars, ticks, r, i, opVars, nbVars>>

\* RandomBit();   the last line of the %%qsharp cell: the call
CellCallRandomBit ==
  /\ cell = "call_RandomBit"
  /\ qpc = "idle"
  /\ IF "RandomBit" \in defined
       THEN Call("RandomBit") /\ UNCHANGED <<cell, err>>
       ELSE NameError /\ UNCHANGED opVars
  /\ UNCHANGED <<defined, shots, results, counts, values, xlabels,
                 bars, ticks, r, i, nbVars>>

\* RandomBit();   the call has returned
CellCallReturned ==
  /\ cell = "call_RandomBit"
  /\ qpc = "done"
  /\ Resume
  /\ cell' = "eval"
  /\ UNCHANGED <<defined, err, shots, results, counts, values, xlabels,
                 bars, ticks, r, i, nbVars>>

\* r = qsharp.eval("RandomBit()")   the call
CellEval ==
  /\ cell = "eval"
  /\ qpc = "idle"
  /\ IF "RandomBit" \in defined
       THEN Call("RandomBit") /\ UNCHANGED <<cell, err>>
       ELSE NameError /\ UNCHANGED opVars
  /\ UNCHANGED <<defined, shots, results, counts, values, xlabels,
                 bars, ticks, r, i, nbVars>>

\* r = qsharp.eval("RandomBit()")   the assignment
CellEvalAssign ==
  /\ cell = "eval"
  /\ qpc = "done"
  /\ r' = ret
  /\ Resume
  /\ cell' = "if"
  /\ UNCHANGED <<defined, err, shots, results, counts, values, xlabels,
                 bars, ticks, i, nbVars>>

\* if r == qsharp.Result.One: i = 1  else: i = 0
CellIf ==
  /\ cell = "if"
  /\ i' = IF r = "One" THEN 1 ELSE 0
  /\ cell' = "run"
  /\ UNCHANGED <<defined, err, shots, results, counts, values, xlabels,
                 bars, ticks, r, opVars, nbVars>>

\* results = qsharp.run("RandomBit()", shots=..., save_events=True)
\* the call: the entry expression is resolved, no shot has run yet
CellRun ==
  /\ cell = "run"
  /\ \E n \in 1 .. MaxShots : shots' = n
  /\ results' = << >>
  /\ IF "RandomBit" \in defined
       THEN cell' = "shot" /\ UNCHANGED err
       ELSE NameError
  /\ UNCHANGED <<defined, counts, values, xlabels, bars, ticks, r, i,
                 opVars, nbVars>>

\* qsharp.run: the next shot starts
CellShot ==
  /\ cell = "shot"
  /\ qpc = "idle"
  /\ MoreShots(Len(results), shots)
  /\ Call("RandomBit")
  /\ UNCHANGED <<pyVars, nbVars>>

\* qsharp.run: a shot has ended; save_events=True stores its events with
\* its result
CellShotDone ==
  /\ cell = "shot"
  /\ qpc = "done"
  /\ results' = Append(results, [result |-> ret, events |-> events])
  /\ Resume
  /\ UNCHANGED <<cell, defined, err, shots, counts, values, xlabels,
                 bars, ticks, r, i, nbVars>>

\* qsharp.run: all shots have run and the call returns
CellRunReturn ==
  /\ cell = "shot"
  /\ qpc = "idle"
  /\ ~MoreShots(Len(results), shots)
  /\ cell' = "extract"
  /\ UNCHANGED <<defined, err, shots, results, counts, values, xlabels,
                 bars, ticks, r, i, opVars, nbVars>>

\* results = [entry["result"] for entry in results]
CellExtract ==
  /\ cell = "extract"
  /\ results' = Extract(results)
  /\ cell' = "sort"
  /\ UNCHANGED <<defined, err, shots, counts, values, xlabels,
                 bars, ticks, r, i, opVars, nbVars>>

\* results.sort()
CellSort ==
  /\ cell = "sort"
  /\ results' = Sort(results)
  /\ cell' = "count"
  /\ UNCHANGED <<defined, err, shots, counts, values, xlabels,
                 bars, ticks, r, i, opVars, nbVars>>

\* counts = Counter(results)
CellCount ==
  /\ cell = "count"
  /\ counts' = Counter(results)
  /\ cell' = "unpack"
  /\ UNCHANGED <<defined, err, shots, results, values, xlabels,
                 bars, ticks, r, i, opVars, nbVars>>

\* (values, counts) = counts.keys(), counts.values()
CellUnpack ==
  /\ cell = "unpack"
  /\ values' = Keys(counts)
  /\ counts' = Values(counts)
  /\ cell' = "arange"
  /\ UNCHANGED <<defined, err, shots, results, xlabels,
                 bars, ticks, r, i, opVars, nbVars>>

\* xlabels = np.arange(len(counts))
CellArange ==
  /\ cell = "arange"
  /\ xlabels' = Arange(Len(counts))
  /\ cell' = "bar"
  /\ UNCHANGED <<defined, err, shots, results, counts, values,
                 bars, ticks, r, i, opVars, nbVars>>

\* plt.bar(xlabels, counts)
CellBar ==
  /\ cell = "bar"
  /\ bars' = [k \in 1 .. Len(xlabels) |-> <<xlabels[k], counts[k]>>]
  /\ cell' = "xticks"
  /\ UNCHANGED <<defined, err, shots, results, counts, values, xlabels,
                 ticks, r, i, opVars, nbVars>>

\* plt.xticks(xlabels, values); plt.show()
CellXticks ==
  /\ cell = "xticks"
  /\ ticks' = [k \in 1 .. Len(xlabels) |-> <<xlabels[k], values[k]>>]
  /\ cell' = "histogram"
  /\ UNCHANGED <<defined, err, shots, results, counts, values, xlabels,
                 bars, r, i, opVars, nbVars>>

\* Histogram(results)   (a display of the sorted list; no state changes)
CellHistogram ==
  /\ cell = "histogram"
  /\ cell' = "estimate"
  /\ UNCHANGED <<defined, err, shots, results, counts, values, xlabels,
                 bars, ticks, r, i, opVars, nbVars>>

\* estimate = qsharp.estimate("RandomBit()", [...]): the entry expression
\* is resolved in the session; the report itself is not modelled
CellEstimate ==
  /\ cell = "estimate"
  /\ IF "RandomBit" \in defined
       THEN cell' = "init" /\ UNCHANGED err
       ELSE NameError
  /\ UNCHANGED <<defined, shots, results, counts, values, xlabels,
                 bars, ticks, r, i, opVars, nbVars>>

\* qsharp.init(target_profile=qsharp.TargetProfile.Base)
CellInit ==
  /\ cell = "init"
  /\ defined' = InitSession(defined)
  /\ cell' = "workspace"
  /\ UNCHANGED <<err, shots, results, counts, values, xlabels,
                 bars, ticks, r, i, opVars, nbVars>>

\* workspace = Workspace(...)
CellWorkspace ==
  /\ cell = "workspace"
  /\ cell' = "define_Random"
  /\ UNCHANGED <<defined, err, shots, results, counts, values, xlabels,
                 bars, ticks, r, i, opVars, nbVars>>

\* %%qsharp ... operation Random() ... operation RandomNBits(N: Int) ...
CellDefineRandom ==
  /\ cell = "define_Random"
  /\ defined' = defined \cup {"Random", "RandomNBits"}
  /\ cell' = "compile"
  /\ UNCHANGED <<err, shots, results, counts, values, xlabels,
                 bars, ticks, r, i, opVars, nbVars>>

\* operation = qsharp.compile("RandomNBits(4)"): the entry expression is
\* resolved in the session
CellCompile ==
  /\ cell = "compile"
  /\ IF "RandomNBits" \in defined
       THEN cell' = "submit" /\ UNCHANGED err
       ELSE NameError
  /\ UNCHANGED <<defined, shots, results, counts, values, xlabels,
                 bars, ticks, r, i, opVars, nbVars>>

\* target = workspace.get_targets(...); job = target.submit(...);
\* job.get_results()   (the remote service is not modelled)
CellSubmit ==
  /\ cell = "submit"
  /\ cell' = "end"
  /\ UNCHANGED <<defined, err, shots, results, counts, values, xlabels,
                 bars, ticks, r, i, opVars, nbVars>>

\* a fresh kernel: nothing imported, no Q# session content, no variables
Init ==
  /\ cell = "import" /\ defined = {} /\ err = "none" /\ shots = 0
  /\ results = << >> /\ counts = << >> /\ values = << >>
  /\ xlabels = << >> /\ bars = << >> /\ ticks = << >>
  /\ r = "none" /\ i = 0
  /\ OpIdle
  /\ NbIdle

Next ==
  \/ CellImport
  \/ CellDefineRandomBit
  \/ CellCallRandomBit
  \/ CellCallReturned
  \/ CellEval
  \/ CellEvalAssign
  \/ CellIf
  \/ CellRun
  \/ CellShot
  \/ CellShotDone
  \/ CellRunReturn
  \/ CellExtract
  \/ CellSort
  \/ CellCount
  \/ CellUnpack
  \/ CellArange
  \/ CellBar
  \/ CellXticks
  \/ CellHistogram
  \/ CellEstimate
  \/ CellInit
  \/ CellWorkspace
  \/ CellDefineRandom
  \/ CellCompile
  \/ CellSubmit
  \/ OpUse
  \/ OpH
  \/ OpDumpMachine
  \/ OpM
  \/ OpMessage
  \/ OpReset
  \/ OpReturn

Spec == Init /\ [][Next]_vars

\* ==== properties ==========================================================

\* number of occurrences of x in the list s
Occurrences(s, x) == Cardinality({k \in 1 .. Len(s) : s[k] = x})

\* sum of a list of integers
RECURSIVE Sum(_)
Sum(s) == IF s = << >> THEN 0 ELSE Head(s) + Sum(Tail(s))

\* every reordering of the list s
Reorderings(s) ==
  {[k \in 1 .. Len(s) |-> s[f[k]]] : f \in Permutations(1 .. Len(s))}

\* a Counter as the mapping it denotes (dict equality ignores key order)
AsMapping(c) ==
  [l \in {c[k][1] : k \in 1 .. Len(c)} |->
     CHOOSE n \in {c[k][2] : k \in {j \in 1 .. Len(c) : c[j][1] = l}} : TRUE]

\* C1: when qsharp.run("RandomBit()", shots=N) has returned, for N >= 1, the
\* list of shot records has exactly N entries, each with a result that is
\* Zero or One; the list of extracted results has exactly N entries too,
\* each Zero or One.
C1_RunYieldsNResults ==
  /\ cell = "extract" =>
       /\ shots >= 1
       /\ Len(results) = shots
       /\ \A k \in 1 .. Len(results) : results[k]["result"] \in Labels
  /\ cell = "sort" =>
       /\ Len(results) = shots
       /\ \A k \in 1 .. Len(results) : results[k] \in Labels

\* C1 witness: a run of at least two shots in which both outcomes occurred
\* has been extracted.
C1_Witness ==
  /\ cell = "sort"
  /\ shots >= 2
  /\ Occurrences(results, "Zero") >= 1
  /\ Occurrences(results, "One") >= 1

\* C3: the mapping held by counts = Counter(results), taken after the sort,
\* equals the mapping Counter gives for every reordering of the outcome
\* list (the order the shots produced is one of them): the sort changes the
\* order of the keys only, never a count.
C3_CountsOrderIndependent ==
  cell = "unpack" =>
    \A p \in Reorderings(results) :
      /\ AsMapping(Counter(p)) = AsMapping(counts)
      /\ \A l \in Labels : Occurrences(p, l) = Occurrences(results, l)

\* C3 witness: both outcomes occurred among at least three shots, so some
\* reordering interleaves the labels and inserts One before Zero.
C3_Witness ==
  /\ cell = "unpack"
  /\ Len(results) >= 3
  /\ Len(counts) = 2

\* C7: in the finished bar chart the tick labels are in sorted order (Zero
\* before One), bar k stands at the position of tick k and its height is
\* the number of occurrences of label k among the results, there are as
\* many bars as distinct outcomes (1 or 2), and the heights sum to the
\* number of shots.
C7_BarChart ==
  cell = "histogram" =>
    /\ \A j, k \in 1 .. Len(ticks) : j < k => Rank(ticks[j][2]) < Rank(ticks[k][2])
    /\ Len(bars) = Len(ticks)
    /\ Len(bars) = Cardinality({results[k] : k \in 1 .. Len(results)})
    /\ Len(bars) \in {1, 2}
    /\ \A k \in 1 .. Len(bars) :
         /\ bars[k][1] = ticks[k][1]
         /\ bars[k][2] = Occurrences(results, ticks[k][2])
    /\ Sum([k \in 1 .. Len(bars) |-> bars[k][2]]) = shots

\* C7 witness: a chart with two bars of different heights has been drawn.
C7_Witness ==
  /\ cell = "histogram"
  /\ Len(bars) = 2
  /\ bars[1][2] # bars[2][2]

\* C8: in RandomBit and Random, the binding result is the outcome the
\* measurement collapsed the qubit to; Reset leaves the qubit in Zero and
\* does not change result; the qubit is in Zero when the scope ends and it
\* is released, and the value returned is result.
C8_ResetBeforeRelease ==
  [][ /\ (qpc = "M" /\ qpc' # "M") => (result' = qubit' /\ result' \in Labels)
      /\ (qpc = "Reset" /\ qpc' = "return") =>
           (result = qubit /\ qubit' = "Zero" /\ result' = result)
      /\ (qpc = "return" /\ qpc' = "done") =>
           (qubit = "Zero" /\ qubit' = "free" /\ ret' = result)
    ]_vars

\* C8 witness: Random has returned One, the outcome the Reset then cleared
\* from the qubit.
C8_Witness ==
  /\ op = "Random"
  /\ qpc = "done"
  /\ ret = "One"
  /\ qubit = "free"

\* state part of C9: between iterations of RandomNBits the accumulator
\* holds as many results as iterations were completed and Random() was
\* called once per iteration, every result is Zero or One, and the returned
\* array has N elements for N >= 1 and none for N <= 0.
C9_LoopInvariant ==
  entry.name = "RandomNBits" =>
    /\ nbPc \in {"for", "call", "return"} =>
         (Len(nbResults) = nbI /\ calls = nbI)
    /\ nbPc \in {"bind", "append"} =>
         (Len(nbResults) = nbI /\ calls = nbI + 1)
    /\ nbPc \in {"call", "bind", "append"} => nbI < N
    /\ \A k \in 1 .. Len(nbResults) : nbResults[k] \in Labels
    /\ nbPc = "done" =>
         /\ nbRet = nbResults
         /\ Len(nbRet) = (IF N >= 1 THEN N ELSE 0)
         /\ calls = Len(nbRet)

\* C9: RandomNBits(N) terminates; it returns exactly N results for N >= 1
\* and the empty array for N <= 0; after the i-th iteration the accumulator
\* holds exactly i results, each Zero or One, each the value returned by
\* that iteration's single call of Random(), appended at the end.
C9_RandomNBits ==
  /\ []C9_LoopInvariant
  /\ [][nbPc = "append" => nbResults' = Append(nbResults, ret)]_vars
  /\ <>(nbPc = "done")

\* C9 witness: RandomNBits(N) has returned N >= 2 results that are not all
\* equal.
C9_Witness ==
  /\ entry.name = "RandomNBits"
  /\ nbPc = "done"
  /\ N >= 2
  /\ Len(nbRet) = N
  /\ nbRet[1] # nbRet[2]

\* C10: with the cells run once top to bottom no call fails to resolve its
\* operation: RandomBit is defined at its call, eval, run and estimate;
\* after qsharp.init RandomBit is no longer defined; at the compile call
\* the session defines exactly Random and RandomNBits.
C10_NamesResolve ==
  /\ err = "none"
  /\ cell # "failed"
  /\ cell \in {"call_RandomBit", "eval", "if", "run", "shot", "estimate"} =>
       "RandomBit" \in defined
  /\ cell \in {"workspace", "define_Random", "compile", "submit", "end"} =>
       "RandomBit" \notin defined
  /\ cell \in {"compile", "submit", "end"} =>
       defined = {"Random", "RandomNBits"}

\* C10 witness: the last cell has run without an error.
C10_Witness ==
  /\ cell = "end"
  /\ err = "none"
  /\ defined = {"Random", "RandomNBits"}

====
